---- MODULE Spec2Model ----
(***************************************************************************)
(* Model of the EarthquakeVisualiser data layer:                           *)
(*   - services/usgs.ts: parseError, fetchEarthquakes, invalidateCache and *)
(*     the module-level cache;                                             *)
(*   - context/EarthquakeContext.tsx: the provider state and refresh().    *)
(* Time is in milliseconds.  Every asynchronous call is a slot of `calls`; *)
(* a slot advances at its suspension points (the pending request, the      *)
(* backoff timer, the continuation of refresh after the await).            *)
(***************************************************************************)
EXTENDS Integers, Sequences, FiniteSets

VARIABLES
  clock,        \* Date.now()
  cache,        \* the module-level Map: <<>> or <<entry>> under the single key
  calls,        \* one record per fetchEarthquakes invocation slot
  started,      \* number of invocations started so far
  mounted,      \* the provider's mount effect has run
  feed,         \* provider state: <<>> or <<EarthquakeFeed>>
  loading,      \* provider state
  error,        \* provider state: <<>> or <<ErrorInfo>>
  lastUpdated,  \* provider state: <<>> or <<number>>
  probe,        \* input and output of one parseError application
  invalidated,  \* invalidateCache has run and no invocation has started since
  filters,      \* provider state: the Filters object
  filtered,     \* the memoized value of useMemo(..., [feed, filters])
  sample,       \* the body served where the mapping of one body is examined
  lastPartial,  \* the argument of the last setFilters call
  map,          \* the Leaflet map: [zoom, center]
  layer         \* the markers drawn by the last render of the map layer

vars == <<clock, cache, calls, started, mounted, feed, loading, error, lastUpdated, probe,
          invalidated, filters, filtered, sample, lastPartial, map, layer>>

(***************************************************************************)
(* Bounds of the model.                                                    *)
(***************************************************************************)
NumCalls == 2          \* invocation slots that can be in flight together
MaxCalls == 2          \* invocations started in one behaviour
MaxRetries == 4        \* largest `retries` argument tried
MaxTicks == 3          \* number of clock advances in one behaviour
MaxFeatures == 2       \* longest feature list of a mapped body
MaxZoom == 18          \* deepest zoom level the map is taken to
MinStatus == 100       \* HTTP statuses classified by the parseError check
MaxStatus == 599

Calls == 1..NumCalls

(***************************************************************************)
(* Program constants.                                                      *)
(***************************************************************************)
DEFAULT_TTL == 300000      \* ttlMs = 5 * 60 * 1000
DEFAULT_RETRIES == 2       \* retries = 2
BACKOFF_BASE == 1000
BACKOFF_CAP == 5000

None == <<>>
Some(x) == <<x>>
Min(a, b) == IF a < b THEN a ELSE b

RECURSIVE Pow2(_)
Pow2(n) == IF n <= 0 THEN 1 ELSE 2 * Pow2(n - 1)

(***************************************************************************)
(* JavaScript values as they come out of the JSON body.                    *)
(***************************************************************************)
Undef == [t |-> "undefined", n |-> 0, s |-> ""]
Null == [t |-> "null", n |-> 0, s |-> ""]
Num(n) == [t |-> "number", n |-> n, s |-> ""]
NaN == [t |-> "NaN", n |-> 0, s |-> ""]
Infinity == [t |-> "Infinity", n |-> 0, s |-> ""]
Str(s) == [t |-> "string", n |-> 0, s |-> s]

\* Number(v): undefined -> NaN, null -> 0, "" -> 0, a numeric string -> its
\* value, any other string -> NaN, an object -> NaN.
StringToNumber(s) ==
  CASE s = "" -> Num(0)
    [] s = "7" -> Num(7)
    [] s = "35" -> Num(35)
    [] OTHER -> NaN

Number(v) ==
  CASE v.t = "number" -> v
    [] v.t = "NaN" -> NaN
    [] v.t = "Infinity" -> Infinity
    [] v.t = "undefined" -> NaN
    [] v.t = "null" -> Num(0)
    [] v.t = "string" -> StringToNumber(v.s)
    [] OTHER -> NaN

\* String(v); the decimal rendering of a number keeps the number.
String(v) ==
  CASE v.t = "string" -> v
    [] v.t = "number" -> [t |-> "string", n |-> v.n, s |-> "<decimal>"]
    [] OTHER -> Str(v.t)

IsFinite(v) == v.t = "number"
IsNullish(v) == v.t \in {"undefined", "null"}
\* a destructuring default applies to undefined only
Default(v, d) == IF v.t = "undefined" THEN d ELSE v
Elem(items, i) == IF i <= Len(items) THEN items[i] ELSE Undef

(***************************************************************************)
(* parseError (usgs.ts 47-139).  A thrown value is                         *)
(*   [isAxios, isError, hasResponse, code, msgTimeout, msgNetwork,         *)
(*    status, message]                                                     *)
(* msgTimeout / msgNetwork: message.includes('timeout' / 'Network Error'). *)
(***************************************************************************)
NoStatus == 0

Msg(text) == [text |-> text, status |-> NoStatus, inner |-> ""]

Info(message, code, statusCode, isRetryable) ==
  [message |-> message, code |-> code, statusCode |-> statusCode, isRetryable |-> isRetryable]

HttpErrorRetryable_4xx(status) == status >= 400

HttpErrorRetryable(status) == status >= 500

parseError(e) ==
  IF e.isAxios
  THEN IF ~e.hasResponse
       THEN IF e.code = "ECONNABORTED" \/ e.msgTimeout
            THEN Info(Msg("Request timed out. The USGS server is taking too long to respond."),
                      "TIMEOUT", NoStatus, TRUE)
            ELSE IF e.code = "ERR_NETWORK" \/ e.msgNetwork
            THEN Info(Msg("Network error. Please check your internet connection."),
                      "NETWORK_ERROR", NoStatus, TRUE)
            ELSE Info(Msg("Unable to connect to USGS servers. Please try again later."),
                      "CONNECTION_ERROR", NoStatus, TRUE)
       ELSE CASE e.status = 400 ->
                   Info(Msg("Invalid request to USGS API."), "BAD_REQUEST", e.status, FALSE)
              [] e.status = 403 ->
                   Info(Msg("Access denied to USGS API."), "FORBIDDEN", e.status, FALSE)
              [] e.status = 404 ->
                   Info(Msg("USGS data feed not found."), "NOT_FOUND", e.status, FALSE)
              [] e.status = 429 ->
                   Info(Msg("Too many requests. Please wait a moment and try again."),
                        "RATE_LIMIT", e.status, TRUE)
              [] e.status \in {500, 502, 503, 504} ->
                   Info(Msg("USGS server error. Please try again in a few minutes."),
                        "SERVER_ERROR", e.status, TRUE)
              [] OTHER ->
                   Info([text |-> "HTTP error", status |-> e.status, inner |-> e.message],
                        "HTTP_ERROR", e.status, HttpErrorRetryable(e.status))
  ELSE IF e.isError
       THEN Info(Msg(e.message), "UNKNOWN_ERROR", NoStatus, FALSE)
       ELSE Info(Msg("An unexpected error occurred while fetching earthquake data."),
                 "UNKNOWN_ERROR", NoStatus, FALSE)

\* new USGSError(message, code, statusCode, isRetryable)
USGSError(message, code, statusCode, isRetryable) ==
  [message |-> message, code |-> code, statusCode |-> statusCode, isRetryable |-> isRetryable]

\* Thrown values.
AxiosNoResponse(code, msgTimeout, msgNetwork) ==
  [isAxios |-> TRUE, isError |-> TRUE, hasResponse |-> FALSE, code |-> code,
   msgTimeout |-> msgTimeout, msgNetwork |-> msgNetwork, status |-> NoStatus,
   message |-> "axios"]
AxiosStatus(status) ==
  [isAxios |-> TRUE, isError |-> TRUE, hasResponse |-> TRUE, code |-> "ERR_BAD_RESPONSE",
   msgTimeout |-> FALSE, msgNetwork |-> FALSE, status |-> status,
   message |-> "Request failed"]
LocalError(message, code) ==
  [isAxios |-> FALSE, isError |-> TRUE, hasResponse |-> FALSE, code |-> code,
   msgTimeout |-> FALSE, msgNetwork |-> FALSE, status |-> NoStatus, message |-> message]
ThrownNonError ==
  [isAxios |-> FALSE, isError |-> FALSE, hasResponse |-> FALSE, code |-> "",
   msgTimeout |-> FALSE, msgNetwork |-> FALSE, status |-> NoStatus, message |-> ""]

(***************************************************************************)
(* The response body and its mapping (usgs.ts 190-262).                    *)
(* A body is [t, type, featuresIsArray, features, generated, title]:       *)
(* t is the JavaScript type of resp.data ("null", "string", "object"),     *)
(* type is data.type, features the elements of data.features when it is an *)
(* array, generated / title are data.metadata?.generated / ?.title.        *)
(* A feature is [isObject, id, coordinates, mag, place, time, url];        *)
(* coordinates is [kind, items] with kind "missing" (no geometry or no     *)
(* coordinates), "array", or "noniterable" (a truthy non-iterable value).  *)
(* A missing properties object reads as four undefined properties.         *)
(***************************************************************************)
USGS_ALL_DAY == "https://earthquake.usgs.gov/earthquakes/feed/v1.0/summary/all_day.geojson"

Body(t, type, featuresIsArray, features, generated, title) ==
  [t |-> t, type |-> type, featuresIsArray |-> featuresIsArray, features |-> features,
   generated |-> generated, title |-> title]

Coordinates(kind, items) == [kind |-> kind, items |-> items]

Feature(id, coordinates, mag, place, time, url) ==
  [isObject |-> TRUE, id |-> id, coordinates |-> coordinates,
   mag |-> mag, place |-> place, time |-> time, url |-> url]

NullFeature ==
  [isObject |-> FALSE, id |-> Undef, coordinates |-> Coordinates("missing", <<>>),
   mag |-> Undef, place |-> Undef, time |-> Undef, url |-> Undef]

\* The body of the try block of the map callback throws: reading a property
\* of null, or destructuring a value that is not iterable.
MappingThrows(f) == ~f.isObject \/ f.coordinates.kind = "noniterable"

\* f.geometry?.coordinates || []
CoordinateItems(f) == IF f.coordinates.kind = "array" THEN f.coordinates.items ELSE <<>>

\* f.id ?? `${latitude},${longitude},${time}`
QuakeId(f) ==
  IF IsNullish(f.id)
  THEN [t |-> "template",
        parts |-> <<Elem(CoordinateItems(f), 2), Elem(CoordinateItems(f), 1), Default(f.time, Num(0))>>]
  ELSE [t |-> "given", parts |-> <<f.id>>]

\* the object returned by the map callback for a feature that does not throw
MapFeature(f) ==
  [id |-> QuakeId(f),
   latitude |-> Number(Elem(CoordinateItems(f), 2)),
   longitude |-> Number(Elem(CoordinateItems(f), 1)),
   depth |-> Number(Elem(CoordinateItems(f), 3)),
   magnitude |-> Number(Default(f.mag, Num(0))),
   place |-> String(Default(f.place, Str("Unknown"))),
   time |-> Number(Default(f.time, Num(0))),
   url |-> String(Default(f.url, Str(""))),
   raw |-> f]

\* the predicate of .filter(): q !== null && finite latitude && finite longitude
KeepFeature_latitudeOnly(f) ==
  /\ ~MappingThrows(f)
  /\ IsFinite(MapFeature(f).latitude)

KeepFeature(f) ==
  /\ ~MappingThrows(f)
  /\ IsFinite(MapFeature(f).latitude)
  /\ IsFinite(MapFeature(f).longitude)

RECURSIVE ParseFeatures(_)
ParseFeatures(fs) ==
  IF fs = <<>> THEN <<>>
  ELSE (IF KeepFeature(Head(fs)) THEN <<MapFeature(Head(fs))>> ELSE <<>>)
       \o ParseFeatures(Tail(fs))

\* x ?? d
Coalesce(x, d) == IF IsNullish(x) THEN d ELSE x

\* the feed object built at usgs.ts 254-262; dateNow is Date.now() then
BuildFeed(data, dateNow) ==
  [metadata |-> [generated |-> Coalesce(data.generated, Num(dateNow)),
                 url |-> USGS_ALL_DAY,
                 title |-> Coalesce(data.title, Str("USGS All Day")),
                 count |-> Len(ParseFeatures(data.features))],
   quakes |-> ParseFeatures(data.features)]

\* the USGSError thrown by the shape validation (usgs.ts 192-218), if any
ValidationError(data) ==
  IF data.t # "object"
  THEN Some(LocalError("Invalid response format from USGS API.", "INVALID_FORMAT"))
  ELSE IF data.type # Str("FeatureCollection")
  THEN Some(LocalError("Response is not a valid GeoJSON FeatureCollection.", "INVALID_GEOJSON"))
  ELSE IF ~data.featuresIsArray
  THEN Some(LocalError("GeoJSON features array is missing or invalid.", "INVALID_FEATURES"))
  ELSE None

(***************************************************************************)
(* What the transport can answer to one request: a 2xx response carrying a *)
(* body, or a thrown value.                                                *)
(***************************************************************************)
Resolved(data) == [data |-> Some(data), thrown |-> None]
Rejected(e) == [data |-> None, thrown |-> Some(e)]

GoodFeature == Feature(Str("abc"), Coordinates("array", <<Num(10), Num(20), Num(5)>>),
                       Num(3), Str("Somewhere"), Num(1000), Str("http://example.com"))
BadFeature == Feature(Undef, Coordinates("array", <<Num(10)>>), Undef, Undef, Undef, Undef)

BodyNull == Body("null", Undef, FALSE, <<>>, Undef, Undef)
BodyWrongType == Body("object", Str("Feature"), FALSE, <<>>, Undef, Undef)
BodyNoFeatures == Body("object", Str("FeatureCollection"), FALSE, <<>>, Num(1), Str("test"))
BodyOne == Body("object", Str("FeatureCollection"), TRUE, <<GoodFeature>>, Num(1), Str("test"))
BodyMixed == Body("object", Str("FeatureCollection"), TRUE,
                  <<BadFeature, GoodFeature, NullFeature>>, Num(2), Null)
BodyBare == Body("object", Str("FeatureCollection"), TRUE, <<>>, Undef, Undef)

Bodies == {BodyNull, BodyWrongType, BodyNoFeatures, BodyOne, BodyMixed, BodyBare}

ThrownValues ==
  { AxiosNoResponse("ECONNABORTED", TRUE, FALSE), AxiosStatus(404), AxiosStatus(503) }

Responses == {Resolved(d) : d \in Bodies} \cup {Rejected(e) : e \in ThrownValues}

\* the answers tried where invocations overlap
AppResponses ==
  { Resolved(BodyOne), Resolved(BodyMixed),
    Rejected(AxiosNoResponse("ECONNABORTED", TRUE, FALSE)), Rejected(AxiosStatus(404)) }

(***************************************************************************)
(* fetchEarthquakes (usgs.ts 169-295).                                     *)
(* A slot of `calls` holds the parameters and locals of one invocation:    *)
(*   pc       "idle", "awaiting" (axios.get pending), "backoff" (setTimeout *)
(*            pending), "returned", "thrown", "settled" (refresh finished) *)
(*   origin   "direct" (a caller of the service), "mount" or "refresh"     *)
(*   ttlMs, retries, now, attempt, lastError: as in the source             *)
(*   resp     the answer to the latest request                             *)
(*   result   the returned feed                                            *)
(*   requests number of axios.get calls made by this invocation            *)
(*   waits    the setTimeout delays of this invocation, in order           *)
(*   wakeAt   when the pending setTimeout fires                            *)
(***************************************************************************)
IdleCall ==
  [pc |-> "idle", origin |-> "none", ttlMs |-> 0, retries |-> 0, now |-> 0,
   attempt |-> 0, requests |-> 0, waits |-> <<>>, wakeAt |-> 0,
   resp |-> None, lastError |-> None, result |-> None]

TtlChoices == {0, 2000, DEFAULT_TTL}
RetryChoices == -1..MaxRetries
TickSteps == {1000, DEFAULT_TTL}

\* cached && now - cached.ts < cached.ttl
CacheValid_le(cached, now) == cached # None /\ now - cached[1].ts <= cached[1].ttl

CacheValid_flipped(cached, now) == cached # None /\ now - cached[1].ts > cached[1].ttl

CacheValid(cached, now) == cached # None /\ now - cached[1].ts < cached[1].ttl

\* the loop condition: attempt <= retries
LoopContinues_lt(attempt, retries) == attempt < retries

LoopContinues(attempt, retries) == attempt <= retries

\* !errorInfo.isRetryable || attempt === retries
ShouldThrow_always(errorInfo, attempt, retries) == TRUE

ShouldThrow_lastOnly(errorInfo, attempt, retries) == attempt = retries

ShouldThrow_nonRetryableOnly(errorInfo, attempt, retries) == ~errorInfo.isRetryable

ShouldThrow(errorInfo, attempt, retries) == ~errorInfo.isRetryable \/ attempt = retries

\* Math.min(1000 * Math.pow(2, attempt), 5000)
BackoffMs_uncapped(attempt) == BACKOFF_BASE * Pow2(attempt)

BackoffMs(attempt) == Min(BACKOFF_BASE * Pow2(attempt), BACKOFF_CAP)

\* cache.set(key, { ts: now, ttl: ttlMs, data: feed })
NewEntry(now, ttlMs, data, dateNow) == [ts |-> now, ttl |-> ttlMs, data |-> data]

\* the cache after one attempt: set on success (usgs.ts 265), untouched by
\* the catch block (usgs.ts 268-285)
CacheAfterAttempt_dropOnError(c, thrown, built, dateNow) ==
  IF thrown = None THEN Some(NewEntry(c.now, c.ttlMs, built, dateNow)) ELSE None

CacheAfterAttempt(c, thrown, built, dateNow) ==
  IF thrown = None THEN Some(NewEntry(c.now, c.ttlMs, built, dateNow)) ELSE cache

MaxRetriesExceeded ==
  USGSError(Msg("Failed to fetch earthquake data after all retries."),
            "MAX_RETRIES_EXCEEDED", NoStatus, FALSE)

\* entering the for loop with the given attempt: the request is issued, or
\* the loop is left and the statement after it throws
EnterLoop(c) ==
  IF LoopContinues(c.attempt, c.retries)
  THEN [c EXCEPT !.pc = "awaiting", !.requests = c.requests + 1, !.resp = None, !.wakeAt = 0]
  ELSE [c EXCEPT !.pc = "thrown", !.resp = None, !.wakeAt = 0,
                 !.lastError = IF c.lastError # None THEN c.lastError
                               ELSE Some(MaxRetriesExceeded)]

\* the synchronous part of fetchEarthquakes(ttlMs, retries), up to the first await
BeginFetch(origin, ttlMs, retries) ==
  LET c == [IdleCall EXCEPT !.origin = origin, !.ttlMs = ttlMs, !.retries = retries,
                            !.now = clock]
      cached == cache
  IN IF CacheValid(cached, c.now)
     THEN [c EXCEPT !.pc = "returned", !.result = Some(cached[1].data)]
     ELSE EnterLoop(c)

Free(p) ==
  \/ calls[p].pc \in {"idle", "settled"}
  \/ calls[p].pc \in {"returned", "thrown"} /\ calls[p].origin = "direct"

\* a new invocation takes the lowest free slot
CanStart(p) ==
  /\ started < MaxCalls
  /\ Free(p)
  /\ \A q \in Calls : q < p => ~Free(q)

\* a caller of the service invokes fetchEarthquakes(ttlMs, retries)
Fetch(p, ttlMs, retries) ==
  /\ CanStart(p)
  /\ calls' = [calls EXCEPT ![p] = BeginFetch("direct", ttlMs, retries)]
  /\ started' = started + 1
  /\ invalidated' = FALSE
  /\ UNCHANGED <<clock, cache, mounted, feed, loading, error, lastUpdated, probe,
                 filters, filtered, sample, lastPartial, map, layer>>

\* the same, by a caller that has awaited its previous invocations
FetchAwaited(p, ttlMs, retries) ==
  /\ \A q \in Calls : calls[q].pc \notin {"awaiting", "backoff"}
  /\ Fetch(p, ttlMs, retries)

\* the pending request of invocation p is answered with r
Respond(p, r) ==
  /\ calls[p].pc = "awaiting"
  /\ LET c == calls[p]
         thrown == IF r.thrown # None THEN r.thrown ELSE ValidationError(r.data[1])
     IN IF thrown = None
        THEN LET built == BuildFeed(r.data[1], clock)
             IN /\ cache' = CacheAfterAttempt(c, thrown, built, clock)
                /\ calls' = [calls EXCEPT ![p] =
                               [c EXCEPT !.pc = "returned", !.resp = Some(r),
                                         !.result = Some(built)]]
        ELSE LET errorInfo == parseError(thrown[1])
                 lastError == USGSError(errorInfo.message, errorInfo.code,
                                        errorInfo.statusCode, errorInfo.isRetryable)
             IN /\ cache' = CacheAfterAttempt(c, thrown, None, clock)
                /\ calls' = [calls EXCEPT ![p] =
                     IF ShouldThrow(errorInfo, c.attempt, c.retries)
                     THEN [c EXCEPT !.pc = "thrown", !.resp = Some(r),
                                    !.lastError = Some(lastError)]
                     ELSE [c EXCEPT !.pc = "backoff", !.resp = Some(r),
                                    !.lastError = Some(lastError),
                                    !.waits = Append(c.waits, BackoffMs(c.attempt)),
                                    !.wakeAt = clock + BackoffMs(c.attempt)]]
  /\ UNCHANGED <<clock, started, mounted, feed, loading, error, lastUpdated, probe, invalidated, filters, filtered, sample, lastPartial, map, layer>>

\* the backoff timer of invocation p fires: attempt++ and the next iteration
Wake(p) ==
  /\ calls[p].pc = "backoff"
  /\ clock >= calls[p].wakeAt
  /\ calls' = [calls EXCEPT ![p] = EnterLoop([calls[p] EXCEPT !.attempt = calls[p].attempt + 1])]
  /\ UNCHANGED <<clock, cache, started, mounted, feed, loading, error, lastUpdated, probe, invalidated, filters, filtered, sample, lastPartial, map, layer>>

\* invalidateCache (usgs.ts 307-309)
invalidateCache ==
  /\ cache' = None
  /\ invalidated' = TRUE
  /\ UNCHANGED <<clock, calls, started, mounted, feed, loading, error, lastUpdated, probe,
                 filters, filtered, sample, lastPartial, map, layer>>

(***************************************************************************)
(* EarthquakeProvider (context/EarthquakeContext.tsx).                     *)
(***************************************************************************)
\* refresh(), up to its await: setLoading(true); setError(undefined);
\* fetchEarthquakes()
BeginRefresh_keepsError(p, origin) ==
  /\ CanStart(p)
  /\ loading' = TRUE
  /\ calls' = [calls EXCEPT ![p] = BeginFetch(origin, DEFAULT_TTL, DEFAULT_RETRIES)]
  /\ started' = started + 1
  /\ invalidated' = FALSE
  /\ UNCHANGED <<clock, cache, feed, error, lastUpdated, probe, filters, filtered, sample,
                 lastPartial, map, layer>>

BeginRefresh(p, origin) ==
  /\ CanStart(p)
  /\ loading' = TRUE
  /\ error' = None
  /\ calls' = [calls EXCEPT ![p] = BeginFetch(origin, DEFAULT_TTL, DEFAULT_RETRIES)]
  /\ started' = started + 1
  /\ invalidated' = FALSE
  /\ UNCHANGED <<clock, cache, feed, lastUpdated, probe, filters, filtered, sample, lastPartial, map, layer>>

\* whether the mount effect is due: it runs after the first render, and its
\* dependency list [refresh] holds a callback memoized with no dependencies,
\* so no later render makes it run again
MountEffectDue_everyRender == TRUE

MountEffectDue == ~mounted

\* useEffect(() => { void refresh(); }, [refresh])
Mount(p) ==
  /\ MountEffectDue
  /\ mounted' = TRUE
  /\ BeginRefresh(p, "mount")

\* refresh() invoked through the context value (Refresh button, Try Again)
Refresh(p) ==
  /\ mounted
  /\ mounted' = mounted
  /\ BeginRefresh(p, "refresh")

\* the ErrorInfo stored by the catch block
ErrorInfo(e) == [message |-> e.message, code |-> e.code, isRetryable |-> e.isRetryable]

\* windowToMs
windowToMs(w) ==
  CASE w = "1h" -> 1 * 60 * 60 * 1000
    [] w = "6h" -> 6 * 60 * 60 * 1000
    [] w = "12h" -> 12 * 60 * 60 * 1000
    [] OTHER -> 24 * 60 * 60 * 1000

\* q >= n and q <= n for a JavaScript number q and a finite n
GreaterEq(q, n) == q.t = "Infinity" \/ (q.t = "number" /\ q.n >= n)
LessEq(q, n) == q.t = "number" /\ q.n <= n

\* the predicate of list.filter() in the useMemo callback
PassesFilters_noWindow(q, f, since) ==
  GreaterEq(q.magnitude, f.magMin) /\ LessEq(q.magnitude, f.magMax)

PassesFilters(q, f, since) ==
  GreaterEq(q.magnitude, f.magMin) /\ LessEq(q.magnitude, f.magMax) /\ GreaterEq(q.time, since)

\* the useMemo callback; dateNow is Date.now() when it runs
ComputeFiltered(currentFeed, f, dateNow) ==
  LET list == IF currentFeed = None THEN <<>> ELSE currentFeed[1].quakes
      since == dateNow - windowToMs(f.window)
  IN SelectSeq(list, LAMBDA q : PassesFilters(q, f, since))

\* setFeed(result) in the try block; the catch block leaves feed alone
FeedAfterSettle_clear(c) == IF c.pc = "returned" THEN c.result ELSE None

FeedAfterSettle_latestOnly(c) ==
  IF c.pc = "returned" /\ \A q \in Calls : calls[q].now <= c.now THEN c.result ELSE feed

FeedAfterSettle(c) == IF c.pc = "returned" THEN c.result ELSE feed

\* setError(undefined) in the try block, setError({...}) in the catch block
ErrorAfterSettle_keep(c) ==
  IF c.pc = "returned" THEN error ELSE Some(ErrorInfo(c.lastError[1]))

ErrorAfterSettle_stale(c) ==
  IF c.pc = "returned"
  THEN (IF c.lastError = None THEN None ELSE Some(ErrorInfo(c.lastError[1])))
  ELSE Some(ErrorInfo(c.lastError[1]))

ErrorAfterSettle(c) ==
  IF c.pc = "returned" THEN None ELSE Some(ErrorInfo(c.lastError[1]))

\* the invocation once its continuation has run: refresh() returns, nothing
\* re-invokes fetchEarthquakes
CallAfterSettle_autoRetry(c) ==
  IF c.pc = "thrown" /\ c.lastError[1].isRetryable
  THEN [c EXCEPT !.pc = "awaiting", !.requests = c.requests + 1, !.resp = None]
  ELSE [c EXCEPT !.pc = "settled"]

CallAfterSettle(c) == [c EXCEPT !.pc = "settled"]

\* refresh() after its await: the try / catch / finally continuation, and the
\* render that follows.  The memo is recomputed when setFeed stored another
\* object: always for a feed built by this invocation; for a feed served from
\* the cache with the value of the current feed, it may be the same object
\* (no recomputation) or an equal one (recomputation).
Settle(p) ==
  /\ calls[p].origin # "direct"
  /\ calls[p].pc \in {"returned", "thrown"}
  /\ feed' = FeedAfterSettle(calls[p])
  /\ lastUpdated' = IF calls[p].pc = "returned" THEN Some(clock) ELSE lastUpdated
  /\ error' = ErrorAfterSettle(calls[p])
  /\ loading' = FALSE
  /\ IF calls[p].pc = "thrown"
     THEN filtered' = filtered
     ELSE IF calls[p].resp # None \/ calls[p].result # feed
     THEN filtered' = ComputeFiltered(feed', filters, clock)
     ELSE filtered' \in {filtered, ComputeFiltered(feed', filters, clock)}
  /\ calls' = [calls EXCEPT ![p] = CallAfterSettle(calls[p])]
  /\ UNCHANGED <<clock, cache, started, mounted, probe, invalidated, filters, sample, lastPartial, map, layer>>

\* the initial Filters object
InitialFilters ==
  [magMin |-> 0, magMax |-> 10, window |-> "24h", cluster |-> TRUE, colorMode |-> "magnitude"]

\* a Partial<Filters>: each field is None (not named) or Some(value)
NoPartial == [magMin |-> None, magMax |-> None, window |-> None, cluster |-> None,
              colorMode |-> None]

\* ({ ...prev, ...f })
MergeFilters_reset(prev, f) ==
  [magMin |-> IF f.magMin # None THEN f.magMin[1] ELSE InitialFilters.magMin,
   magMax |-> IF f.magMax # None THEN f.magMax[1] ELSE InitialFilters.magMax,
   window |-> IF f.window # None THEN f.window[1] ELSE InitialFilters.window,
   cluster |-> IF f.cluster # None THEN f.cluster[1] ELSE InitialFilters.cluster,
   colorMode |-> IF f.colorMode # None THEN f.colorMode[1] ELSE InitialFilters.colorMode]

MergeFilters(prev, f) ==
  [magMin |-> IF f.magMin # None THEN f.magMin[1] ELSE prev.magMin,
   magMax |-> IF f.magMax # None THEN f.magMax[1] ELSE prev.magMax,
   window |-> IF f.window # None THEN f.window[1] ELSE prev.window,
   cluster |-> IF f.cluster # None THEN f.cluster[1] ELSE prev.cluster,
   colorMode |-> IF f.colorMode # None THEN f.colorMode[1] ELSE prev.colorMode]

\* setFilters(f) and the render that follows: the new Filters object makes
\* the memo recompute
setFilters(f) ==
  /\ filters' = MergeFilters(filters, f)
  /\ filtered' = ComputeFiltered(feed, filters', clock)
  /\ lastPartial' = f
  /\ UNCHANGED <<clock, cache, calls, started, mounted, feed, loading, error, lastUpdated,
                 probe, invalidated, sample, map, layer>>

\* clearError()
clearError_resetsLoading ==
  /\ error' = None
  /\ loading' = FALSE
  /\ UNCHANGED <<clock, cache, calls, started, mounted, feed, lastUpdated, probe,
                 invalidated, filters, filtered, sample, lastPartial, map, layer>>

clearError ==
  /\ error' = None
  /\ UNCHANGED <<clock, cache, calls, started, mounted, feed, loading, lastUpdated, probe, invalidated, filters, filtered, sample, lastPartial, map, layer>>

\* time passes: by a second, or by the default time-to-live
TicksOf(t) == (t \div DEFAULT_TTL) + ((t % DEFAULT_TTL) \div 1000)

Tick(d) ==
  /\ TicksOf(clock) < MaxTicks
  /\ clock' = clock + d
  /\ UNCHANGED <<cache, calls, started, mounted, feed, loading, error, lastUpdated, probe, invalidated, filters, filtered, sample, lastPartial, map, layer>>

\* <MapContainer center={center} zoom={2} ...>, center = [20, 0]
InitialMap == [zoom |-> 2, center |-> <<Num(20), Num(0)>>]

NoProbe == [e |-> ThrownNonError, info |-> None]

Init ==
  /\ clock = 0
  /\ cache = None
  /\ calls = [p \in Calls |-> IdleCall]
  /\ started = 0
  /\ mounted = FALSE
  /\ feed = None
  /\ loading = FALSE
  /\ error = None
  /\ lastUpdated = None
  /\ probe = NoProbe
  /\ invalidated = FALSE
  /\ filters = InitialFilters
  /\ filtered = <<>>
  /\ sample = BodyOne
  /\ lastPartial = NoPartial
  /\ map = InitialMap
  /\ layer = <<>>

\* The application: the provider and its overlapping refresh() invocations.
Next ==
  \/ \E p \in Calls : Mount(p)
  \/ \E p \in Calls : Refresh(p)
  \/ \E p \in Calls, r \in AppResponses : Respond(p, r)
  \/ \E p \in Calls : Wake(p)
  \/ \E p \in Calls : Settle(p)
  \/ invalidateCache
  \/ clearError
  \/ \E d \in TickSteps : Tick(d)

Spec == Init /\ [][Next]_vars

\* The service on its own: a caller that awaits each fetchEarthquakes(ttlMs,
\* retries) before the next one, with every combination of arguments.
NextFetch ==
  \/ \E p \in Calls, ttlMs \in TtlChoices, retries \in RetryChoices :
        FetchAwaited(p, ttlMs, retries)
  \/ \E p \in Calls, r \in Responses : Respond(p, r)
  \/ \E p \in Calls : Wake(p)
  \/ invalidateCache
  \/ \E d \in TickSteps : Tick(d)

SpecFetch == Init /\ [][NextFetch]_vars

\* The service with its timers: every request is answered in the end (by a
\* body, a timeout or a status), and a backoff timer fires when its delay has
\* passed.
Sleep(p) ==
  /\ calls[p].pc = "backoff"
  /\ clock < calls[p].wakeAt
  /\ clock' = calls[p].wakeAt
  /\ UNCHANGED <<cache, calls, started, mounted, feed, loading, error, lastUpdated, probe,
                 invalidated, filters, filtered, sample, lastPartial, map, layer>>

TerminateResponses ==
  { Resolved(BodyOne), Resolved(BodyNull),
    Rejected(AxiosNoResponse("ECONNABORTED", TRUE, FALSE)), Rejected(AxiosStatus(404)) }

NextTerminate ==
  \/ \E p \in Calls, ttlMs \in TtlChoices, retries \in RetryChoices :
        FetchAwaited(p, ttlMs, retries)
  \/ \E p \in Calls, r \in TerminateResponses : Respond(p, r)
  \/ \E p \in Calls : Sleep(p)
  \/ \E p \in Calls : Wake(p)

FairTerminate ==
  \A p \in Calls :
    /\ WF_vars(\E r \in TerminateResponses : Respond(p, r))
    /\ WF_vars(Sleep(p))
    /\ WF_vars(Wake(p))

SpecTerminate == Init /\ [][NextTerminate]_vars /\ FairTerminate

(***************************************************************************)
(* parseError applied to every kind of thrown value.                       *)
(***************************************************************************)
NoResponseCodes == {"ECONNABORTED", "ERR_NETWORK", "ERR_OTHER"}

\* validateStatus accepts 200..299; every other status rejects
RejectedStatuses == (MinStatus..MaxStatus) \ (200..299)

Failures ==
  {AxiosNoResponse(c, mt, mn) : c \in NoResponseCodes, mt \in BOOLEAN, mn \in BOOLEAN}
  \cup {AxiosStatus(st) : st \in RejectedStatuses}
  \cup {LocalError("Invalid response format from USGS API.", "INVALID_FORMAT"),
        LocalError("boom", ""), ThrownNonError}

InitClassify ==
  /\ clock = 0
  /\ cache = None
  /\ calls = [p \in Calls |-> IdleCall]
  /\ started = 0
  /\ mounted = FALSE
  /\ feed = None
  /\ loading = FALSE
  /\ error = None
  /\ lastUpdated = None
  /\ probe \in {[e |-> f, info |-> None] : f \in Failures}
  /\ invalidated = FALSE
  /\ filters = InitialFilters
  /\ filtered = <<>>
  /\ sample = BodyOne
  /\ lastPartial = NoPartial
  /\ map = InitialMap
  /\ layer = <<>>

Classify ==
  /\ probe.info = None
  /\ probe' = [probe EXCEPT !.info = Some(parseError(probe.e))]
  /\ UNCHANGED <<clock, cache, calls, started, mounted, feed, loading, error, lastUpdated,
                 invalidated, filters, filtered, sample, lastPartial, map, layer>>

NextClassify == Classify

SpecClassify == InitClassify /\ [][NextClassify]_vars

(***************************************************************************)
(* The filtered view: the provider mounts and refreshes, the requests are  *)
(* answered with a feed of events of several ages and magnitudes, with     *)
(* another feed or with a failure, and the filters are set while a second  *)
(* passes now and then.  Event times are relative to the start (time 0).   *)
(***************************************************************************)
Hour == 60 * 60 * 1000

Event(id, mag, time) ==
  Feature(Str(id), Coordinates("array", <<Num(10), Num(20), Num(5)>>),
          Num(mag), Str("Somewhere"), Num(time), Str("http://example.com"))

BodyView ==
  Body("object", Str("FeatureCollection"), TRUE,
       << Event("halfhour", 1, 0 - (Hour \div 2)),
          Event("hour", 3, 0 - Hour),
          Event("twohours", 5, 0 - 2 * Hour),
          Event("eighthours", 3, 0 - 8 * Hour),
          Event("yesterday", 5, 0 - 25 * Hour) >>,
       Num(1), Str("test"))

ViewResponses == { Resolved(BodyView), Resolved(BodyOne), Rejected(AxiosStatus(404)) }

\* the arguments of setFilters: one field, as the controls pass, or two
Partials ==
  { [NoPartial EXCEPT !.magMin = Some(4)],
    [NoPartial EXCEPT !.magMin = Some(0), !.magMax = Some(4)],
    [NoPartial EXCEPT !.cluster = Some(FALSE), !.colorMode = Some("depth")] }
  \cup { [NoPartial EXCEPT !.window = Some(w)] : w \in {"1h", "6h", "12h"} }

\* the Refresh button: <button onClick={() => refresh()} disabled={loading}>
RefreshButton_alwaysEnabled(p) == Refresh(p)

RefreshButton(p) ==
  /\ ~loading
  /\ Refresh(p)

\* the Try Again button of ErrorBanner: rendered while a retryable error is
\* shown, onClick={onRetry} disabled={isRetrying}, with onRetry = refresh
\* and isRetrying = loading
TryAgain(p) ==
  /\ error # None
  /\ error[1].isRetryable
  /\ ~loading
  /\ mounted
  /\ mounted' = mounted
  /\ BeginRefresh(p, "retry")

\* The application driven through its controls only.
NextUI ==
  \/ \E p \in Calls : Mount(p)
  \/ \E p \in Calls : RefreshButton(p)
  \/ \E p \in Calls : TryAgain(p)
  \/ \E p \in Calls, r \in AppResponses : Respond(p, r)
  \/ \E p \in Calls : Wake(p)
  \/ \E p \in Calls : Settle(p)
  \/ clearError
  \/ \E d \in TickSteps : Tick(d)

SpecUI == Init /\ [][NextUI]_vars

NextView ==
  \/ \E p \in Calls : Mount(p)
  \/ \E p \in Calls : RefreshButton(p)
  \/ \E p \in Calls, r \in ViewResponses : Respond(p, r)
  \/ \E p \in Calls : Settle(p)
  \/ \E f \in Partials : setFilters(f)
  \/ \E d \in TickSteps : Tick(d)

SpecView == Init /\ [][NextView]_vars

(***************************************************************************)
(* The map (components/MapView.tsx, types/earthquake.ts).  The layer is    *)
(* drawn when the map components render; zooming and recentring the        *)
(* Leaflet map do not render them again.  A marker is                      *)
(*   [kind, lat, lng, color, radius, count, event, mode, path]             *)
(* where event is the earthquake a leaf stands for (the first member for   *)
(* a cluster), mode the colorMode and path the branch of                   *)
(* MapClusterOrPoints at that render.                                      *)
(***************************************************************************)
CLUSTER_MAX_ZOOM == 16
CLUSTER_COLOR == "#2563eb"

Max(a, b) == IF a >= b THEN a ELSE b

\* markerColorByMagnitude
markerColorByMagnitude_strict(magnitude) ==
  IF ~IsFinite(magnitude) THEN (IF magnitude.t = "Infinity" THEN "#a10f2b" ELSE "#43a047")
  ELSE IF magnitude.n > 6 THEN "#a10f2b"
  ELSE IF magnitude.n > 5 THEN "#d62d20"
  ELSE IF magnitude.n > 4 THEN "#f17c00"
  ELSE IF magnitude.n > 3 THEN "#f4b400"
  ELSE IF magnitude.n > 2 THEN "#7cb342"
  ELSE "#43a047"

markerColorByMagnitude(magnitude) ==
  IF ~IsFinite(magnitude) THEN (IF magnitude.t = "Infinity" THEN "#a10f2b" ELSE "#43a047")
  ELSE IF magnitude.n >= 6 THEN "#a10f2b"
  ELSE IF magnitude.n >= 5 THEN "#d62d20"
  ELSE IF magnitude.n >= 4 THEN "#f17c00"
  ELSE IF magnitude.n >= 3 THEN "#f4b400"
  ELSE IF magnitude.n >= 2 THEN "#7cb342"
  ELSE "#43a047"

\* markerRadius: Math.max(4, magnitude * 3)
markerRadius(magnitude) ==
  IF IsFinite(magnitude) THEN Num(Max(4, magnitude.n * 3))
  ELSE IF magnitude.t = "Infinity" THEN Infinity ELSE NaN

\* markerColorByDepth
markerColorByDepth(depthKm) ==
  IF ~IsFinite(depthKm) THEN "#8884d8"
  ELSE IF depthKm.n < 10 THEN "#2ecc71"
  ELSE IF depthKm.n < 30 THEN "#27ae60"
  ELSE IF depthKm.n < 70 THEN "#f1c40f"
  ELSE IF depthKm.n < 150 THEN "#e67e22"
  ELSE IF depthKm.n < 300 THEN "#d35400"
  ELSE "#8e44ad"

\* the colour of a leaf drawn by ClusterLayer: the point carries quakeId and
\* magnitude only
ClusterLeafColor(q, colorMode) ==
  IF colorMode = "depth" THEN markerColorByDepth(Num(0))
  ELSE markerColorByMagnitude(Coalesce(q.magnitude, Num(0)))

\* the colour of a marker drawn by the points branch of MapClusterOrPoints
PointColor(q, colorMode) ==
  IF colorMode = "depth" THEN markerColorByDepth(q.depth)
  ELSE markerColorByMagnitude(q.magnitude)

Marker(kind, q, color, radius, count, mode, path) ==
  [kind |-> kind, lat |-> q.latitude, lng |-> q.longitude, color |-> color,
   radius |-> radius, count |-> count, event |-> q, mode |-> mode, path |-> path]

\* useSupercluster({ points, bounds, zoom, options: { radius: 60, maxZoom: 16 } }):
\* which points the index merges is the library's matter; here the first k
\* points form one cluster, for any k but 1, and none above the maxZoom
ClusterChoices(n, zoom) ==
  IF zoom > CLUSTER_MAX_ZOOM THEN {0} ELSE {0} \cup 2..n

\* the radius of a cluster marker: Math.max(12, Math.min(40, 10 + count))
ClusterRadius(count) == Num(Max(12, Min(40, 10 + count)))

\* the markers returned by ClusterLayer when the index merged the first k points
ClusterLayer(points, colorMode, k) ==
  (IF k >= 2
   THEN << Marker("cluster", points[1], CLUSTER_COLOR, ClusterRadius(k), k, colorMode,
                  "clustered") >>
   ELSE << >>)
  \o [i \in 1..(Len(points) - k) |->
        LET q == points[k + i]
        IN Marker("leaf", q, ClusterLeafColor(q, colorMode),
                  markerRadius(Coalesce(q.magnitude, Num(0))), 1, colorMode, "clustered")]

\* the markers returned by the points branch
PointsLayer(points, colorMode) ==
  [i \in 1..Len(points) |->
     Marker("leaf", points[i], PointColor(points[i], colorMode),
            markerRadius(points[i].magnitude), 1, colorMode, "points")]

\* MapView and MapClusterOrPoints render with the current filtered list,
\* filters and map zoom
Render(k) ==
  /\ IF filters.cluster
     THEN /\ k \in ClusterChoices(Len(filtered), map.zoom)
          /\ layer' = ClusterLayer(filtered, filters.colorMode, k)
     ELSE /\ k = 0
          /\ layer' = PointsLayer(filtered, filters.colorMode)
  /\ UNCHANGED <<clock, cache, calls, started, mounted, feed, loading, error, lastUpdated,
                 probe, invalidated, filters, filtered, sample, lastPartial, map>>

\* Math.min(map.getZoom() + 2, 16)
RecenterZoom_uncapped(zoom) == zoom + 2

RecenterZoom(zoom) == Min(zoom + 2, CLUSTER_MAX_ZOOM)

\* click on the i-th marker, a cluster: map.setView([lat, lng], ...)
ClickCluster(i) ==
  /\ i \in 1..Len(layer)
  /\ layer[i].kind = "cluster"
  /\ map' = [zoom |-> RecenterZoom(map.zoom), center |-> <<layer[i].lat, layer[i].lng>>]
  /\ UNCHANGED <<clock, cache, calls, started, mounted, feed, loading, error, lastUpdated,
                 probe, invalidated, filters, filtered, sample, lastPartial, layer>>

\* the zoom control and the scroll wheel: one level in or out
Zoom(d) ==
  /\ map.zoom + d \in 0..MaxZoom
  /\ map' = [map EXCEPT !.zoom = map.zoom + d]
  /\ UNCHANGED <<clock, cache, calls, started, mounted, feed, loading, error, lastUpdated,
                 probe, invalidated, filters, filtered, sample, lastPartial, layer>>

\* seven events, their depths on the six thresholds and one without depth,
\* their magnitudes on the five thresholds and below
MapEvent(id, lng, depthItems, mag) ==
  Feature(Str(id), Coordinates("array", <<Num(lng), Num(lng + 1)>> \o depthItems),
          mag, Str("Somewhere"), Num(0 - (Hour \div 2)), Str("http://example.com"))

BodyMap ==
  Body("object", Str("FeatureCollection"), TRUE,
       << MapEvent("a", 10, <<Num(5)>>, Num(1)),
          MapEvent("b", 20, <<Num(10)>>, Num(2)),
          MapEvent("c", 30, <<Num(30)>>, Num(3)),
          MapEvent("d", 40, <<Num(70)>>, Num(4)),
          MapEvent("e", 50, <<Num(150)>>, Num(5)),
          MapEvent("f", 60, <<Num(300)>>, Num(6)),
          MapEvent("g", 70, << >>, Undef) >>,
       Num(1), Str("test"))

MapPoints == 1..Len(BodyMap.features)

\* the cluster switch and the colour selector
MapPartials ==
  { [NoPartial EXCEPT !.cluster = Some(b)] : b \in BOOLEAN }
  \cup { [NoPartial EXCEPT !.colorMode = Some(m)] : m \in {"magnitude", "depth"} }

NextMap ==
  \/ \E p \in Calls : Mount(p)
  \/ \E p \in Calls : Respond(p, Resolved(BodyMap))
  \/ \E p \in Calls : Settle(p)
  \/ \E f \in MapPartials : setFilters(f)
  \/ \E k \in {0} \cup MapPoints : Render(k)
  \/ \E i \in MapPoints : ClickCluster(i)
  \/ \E d \in {-1, 1} : Zoom(d)

SpecMap == Init /\ [][NextMap]_vars

(***************************************************************************)
(* The mapping of one body: the provider mounts, the request is answered   *)
(* with a FeatureCollection whose features are drawn from the kinds of     *)
(* record below, and the feed goes through the cache and the store.        *)
(***************************************************************************)
Place == Coordinates("array", <<Num(10), Num(20), Num(5)>>)

FeatureSamples ==
  { GoodFeature,
    BadFeature,
    NullFeature,
    Feature(Str("noniterable"), Coordinates("noniterable", <<>>),
            Num(1), Str("A"), Num(1), Str("u")),
    Feature(Str("nogeometry"), Coordinates("missing", <<>>),
            Num(1), Str("A"), Num(1), Str("u")),
    Feature(Str("nulls"), Coordinates("array", <<Null, Null, Num(5)>>),
            Num(1), Str("A"), Num(1), Str("u")),
    Feature(Str("strings"), Coordinates("array", <<Str("7"), Str("35"), Num(1)>>),
            Num(1), Str("A"), Num(1), Str("u")),
    Feature(Str("text"), Coordinates("array", <<Str("abc"), Num(20), Num(5)>>),
            Num(1), Str("A"), Num(1), Str("u")),
    Feature(Str("overflow"), Coordinates("array", <<Infinity, Num(20), Num(5)>>),
            Num(1), Str("A"), Num(1), Str("u")),
    Feature(Str("nodepth"), Coordinates("array", <<Num(30), Num(40)>>),
            Num(2), Str("B"), Num(2), Str("v")),
    Feature(Undef, Place, Undef, Undef, Undef, Undef),
    Feature(Null, Place, Null, Null, Null, Null) }

FeatureLists == UNION { [1..n -> FeatureSamples] : n \in 0..MaxFeatures }

ParseBodies ==
  { Body("object", Str("FeatureCollection"), TRUE, fs, Num(1), Str("test")) :
      fs \in FeatureLists }

InitParse ==
  /\ clock = 0
  /\ cache = None
  /\ calls = [p \in Calls |-> IdleCall]
  /\ started = 0
  /\ mounted = FALSE
  /\ feed = None
  /\ loading = FALSE
  /\ error = None
  /\ lastUpdated = None
  /\ probe = NoProbe
  /\ invalidated = FALSE
  /\ filters = InitialFilters
  /\ filtered = <<>>
  /\ sample \in ParseBodies
  /\ lastPartial = NoPartial
  /\ map = InitialMap
  /\ layer = <<>>

NextParse ==
  \/ \E p \in Calls : Mount(p)
  \/ \E p \in Calls : Refresh(p)
  \/ \E p \in Calls : Respond(p, Resolved(sample))
  \/ \E p \in Calls : Settle(p)

SpecParse == InitParse /\ [][NextParse]_vars

(***************************************************************************)
(* Properties.                                                             *)
(***************************************************************************)
\* a step in which slot p starts a new invocation; calls'[p].now = clock and
\* `cache` is the entry the invocation reads
StartStep(p) == started' = started + 1 /\ calls'[p] # calls[p]

\* the invocation in slot c was served from the cache
ServedFromCache(c) == c.result # None /\ c.resp = None

FromCache(p, entry) ==
  /\ calls'[p].pc = "returned"
  /\ calls'[p].result = Some(entry.data)
  /\ calls'[p].requests = 0
  /\ calls'[p].waits = <<>>

\* C1 as stated: an invocation that finds an entry younger than the ttlMs
\* passed to this invocation returns it without a request or a wait.
C1_HitByCallTtl ==
  [][\A p \in Calls :
       (StartStep(p) /\ cache # None /\ clock - cache[1].ts < calls'[p].ttlMs)
         => FromCache(p, cache[1])]_vars

\* C1 amended: an invocation that finds an entry younger than the ttl stored
\* with that entry returns the entry's snapshot, issues no request and waits
\* for no backoff, whatever ttlMs it was given.
C1_HitByStoredTtl ==
  [][\A p \in Calls :
       (StartStep(p) /\ cache # None /\ clock - cache[1].ts < cache[1].ttl)
         => FromCache(p, cache[1])]_vars

\* an invocation given ttlMs = 0 was served an entry stored with another ttl
C1_Witness ==
  \E p \in Calls :
    /\ ServedFromCache(calls[p])
    /\ calls[p].requests = 0
    /\ cache # None
    /\ calls[p].result = Some(cache[1].data)
    /\ calls[p].ttlMs # cache[1].ttl

\* C2 as stated, for invocations with retries >= 0 (a negative retries never
\* enters the loop): an invocation that finds no entry, or an entry at least
\* as old as the ttlMs passed to this invocation, issues a request; so does
\* every invocation with ttlMs <= 0.
C2_MissByCallTtl ==
  [][\A p \in Calls :
       /\ (StartStep(p) /\ calls'[p].retries >= 0
             /\ (cache = None \/ clock - cache[1].ts >= calls'[p].ttlMs))
            => calls'[p].requests >= 1
       /\ (StartStep(p) /\ calls'[p].retries >= 0 /\ calls'[p].ttlMs <= 0)
            => calls'[p].requests >= 1]_vars

\* C2 amended: an invocation with retries >= 0 that finds no entry, or an
\* entry at least as old as the ttl stored with it, issues a request at once;
\* in particular an entry stored with ttl <= 0 is never served.
C2_MissByStoredTtl ==
  [][\A p \in Calls :
       /\ (StartStep(p) /\ calls'[p].retries >= 0
             /\ (cache = None \/ clock - cache[1].ts >= cache[1].ttl))
            => (calls'[p].pc = "awaiting" /\ calls'[p].requests = 1)
       /\ (StartStep(p) /\ calls'[p].retries >= 0 /\ cache # None /\ cache[1].ttl <= 0)
            => (calls'[p].pc = "awaiting" /\ calls'[p].requests = 1)]_vars

\* a request is pending for an invocation that found an entry exactly as old
\* as its stored, positive ttl
C2_Witness ==
  \E p \in Calls :
    /\ calls[p].pc = "awaiting"
    /\ calls[p].attempt = 0
    /\ calls[p].requests = 1
    /\ cache # None
    /\ cache[1].ttl > 0
    /\ calls[p].now - cache[1].ts = cache[1].ttl

\* C3: an invocation with retries >= 0 that was not served from the cache has
\* issued between 1 and retries + 1 requests; with retries = 0 exactly one,
\* and no backoff wait.
C3_AttemptBudget ==
  \A p \in Calls :
    (calls[p].pc # "idle" /\ calls[p].retries >= 0 /\ ~ServedFromCache(calls[p]))
      => /\ calls[p].requests >= 1
         /\ calls[p].requests <= calls[p].retries + 1
         /\ calls[p].retries = 0 => (calls[p].requests = 1 /\ calls[p].waits = <<>>)

\* an invocation used its whole budget of retries + 1 >= 3 requests
C3_Witness ==
  \E p \in Calls :
    /\ calls[p].pc = "thrown"
    /\ calls[p].retries >= 2
    /\ calls[p].requests = calls[p].retries + 1

\* the latest answer to invocation c carries a body that passes validation
ValidAnswer(c) ==
  /\ c.resp # None
  /\ c.resp[1].data # None
  /\ ValidationError(c.resp[1].data[1]) = None

\* C4: a retryable failure on an attempt that is not the last one does not
\* raise: the invocation waits and issues the next attempt; a valid feed on
\* any attempt makes it return the snapshot built from that answer, and the
\* cache slot then holds that snapshot.
C4_RetryUntilSuccess ==
  [][\A p \in Calls :
       /\ (calls[p].pc = "awaiting" /\ calls'[p] # calls[p] /\ ValidAnswer(calls'[p]))
            => /\ calls'[p].pc = "returned"
               /\ calls'[p].result = Some(BuildFeed(calls'[p].resp[1].data[1], clock))
               /\ calls'[p].requests = calls[p].attempt + 1
               /\ Len(calls'[p].waits) = calls[p].attempt
               /\ cache' = Some([ts |-> calls[p].now, ttl |-> calls[p].ttlMs,
                                 data |-> calls'[p].result[1]])
       /\ (calls[p].pc = "awaiting" /\ calls'[p] # calls[p] /\ ~ValidAnswer(calls'[p])
             /\ calls'[p].lastError[1].isRetryable
             /\ calls[p].attempt < calls[p].retries)
            => calls'[p].pc = "backoff"
       /\ (calls[p].pc = "backoff" /\ calls'[p] # calls[p])
            => /\ calls'[p].pc = "awaiting"
               /\ calls'[p].attempt = calls[p].attempt + 1
               /\ calls'[p].requests = calls[p].requests + 1]_vars

\* an invocation returned on its third attempt and the cache holds its snapshot
C4_Witness ==
  \E p \in Calls :
    /\ calls[p].pc = "returned"
    /\ calls[p].attempt = 2
    /\ calls[p].requests = 3
    /\ ValidAnswer(calls[p])
    /\ cache = Some([ts |-> calls[p].now, ttl |-> calls[p].ttlMs, data |-> calls[p].result[1]])

\* the value thrown inside the try block for the latest answer to c
ThrownBy(c) ==
  IF c.resp[1].thrown # None THEN c.resp[1].thrown[1]
  ELSE ValidationError(c.resp[1].data[1])[1]

\* C5: when an attempt fails with an error that is not retryable, or fails on
\* the last permitted attempt, the invocation throws that attempt's classified
\* error in the same step, with no new request and no wait; a thrown
\* invocation issues nothing afterwards.
C5_FailFast ==
  [][\A p \in Calls :
       /\ (calls[p].pc = "awaiting" /\ calls'[p] # calls[p] /\ ~ValidAnswer(calls'[p])
             /\ (~parseError(ThrownBy(calls'[p])).isRetryable
                   \/ calls[p].attempt = calls[p].retries))
            => /\ calls'[p].pc = "thrown"
               /\ calls'[p].lastError = Some(parseError(ThrownBy(calls'[p])))
               /\ calls'[p].requests = calls[p].requests
               /\ calls'[p].waits = calls[p].waits
       /\ (calls[p].pc = "thrown" /\ started' = started)
            => /\ calls'[p].pc \in {"thrown", "settled"}
               /\ calls'[p].requests = calls[p].requests
               /\ calls'[p].waits = calls[p].waits]_vars

\* an invocation threw a non-retryable error with attempts left
C5_Witness ==
  \E p \in Calls :
    /\ calls[p].pc = "thrown"
    /\ calls[p].requests >= 1
    /\ calls[p].attempt < calls[p].retries
    /\ ~calls[p].lastError[1].isRetryable

\* the code the claim gives to a body that fails validation
ValidationCode(data) ==
  IF data.t # "object" THEN "INVALID_FORMAT"
  ELSE IF data.type # Str("FeatureCollection") THEN "INVALID_GEOJSON"
  ELSE "INVALID_FEATURES"

\* C6: an invocation that throws after a 2xx answer whose body fails validation
\* throws INVALID_FORMAT, INVALID_GEOJSON or INVALID_FEATURES according to the
\* body, not retryable, and without a retry.
C6_ValidationCodes ==
  \A p \in Calls :
    (calls[p].pc = "thrown" /\ calls[p].resp # None /\ calls[p].resp[1].data # None)
      => /\ calls[p].lastError[1].code = ValidationCode(calls[p].resp[1].data[1])
         /\ ~calls[p].lastError[1].isRetryable
         /\ calls[p].waits = <<>>

\* the code the taxonomy gives to each kind of failure
TaxonomyCodes(e) ==
  IF e.isAxios /\ ~e.hasResponse
  THEN LET timedOut == e.code = "ECONNABORTED" \/ e.msgTimeout
           network == e.code = "ERR_NETWORK" \/ e.msgNetwork
       IN IF timedOut /\ network THEN {"TIMEOUT", "NETWORK_ERROR"}
          ELSE IF timedOut THEN {"TIMEOUT"}
          ELSE IF network THEN {"NETWORK_ERROR"}
          ELSE {"CONNECTION_ERROR"}
  ELSE IF e.isAxios
  THEN CASE e.status = 400 -> {"BAD_REQUEST"}
         [] e.status = 403 -> {"FORBIDDEN"}
         [] e.status = 404 -> {"NOT_FOUND"}
         [] e.status = 429 -> {"RATE_LIMIT"}
         [] e.status \in 500..504 \ {501} -> {"SERVER_ERROR"}
         [] OTHER -> {"HTTP_ERROR"}
  ELSE {"UNKNOWN_ERROR"}

RetryableCodes == {"TIMEOUT", "NETWORK_ERROR", "CONNECTION_ERROR", "RATE_LIMIT", "SERVER_ERROR"}

ScheduledWait(a) ==
  CASE a = 0 -> 1000
    [] a = 1 -> 2000
    [] a = 2 -> 4000
    [] OTHER -> 5000

\* C8: after a failed attempt a that is retried, the invocation sets a timer of
\* min(1000 * 2^a, 5000) ms (1000, 2000, 4000, then 5000), and the next
\* request is issued only once the clock has reached the time of the failure
\* plus that wait.
C8_BackoffSchedule ==
  [][\A p \in Calls :
       /\ (calls[p].pc = "awaiting" /\ calls'[p].pc = "backoff")
            => /\ calls'[p].waits = Append(calls[p].waits, ScheduledWait(calls[p].attempt))
               /\ calls'[p].wakeAt = clock + ScheduledWait(calls[p].attempt)
               /\ calls'[p].requests = calls[p].requests
       /\ (calls[p].pc = "backoff" /\ calls'[p].pc = "awaiting")
            => /\ clock >= calls[p].wakeAt
               /\ calls'[p].waits = calls[p].waits]_vars

\* the fourth attempt failed and the capped wait of 5000 ms is pending
C8_Witness ==
  \E p \in Calls :
    /\ calls[p].pc = "backoff"
    /\ calls[p].attempt = 3
    /\ calls[p].waits = <<1000, 2000, 4000, 5000>>

\* C9: the cache slot changes only in a step in which an invocation returns
\* the feed it fetched (the slot then holds that feed) or in invalidateCache
\* (the slot is then empty); the step in which an invocation throws leaves
\* the slot as it is.
C9_CacheWrittenOnSuccessOnly ==
  [][/\ cache' # cache =>
          \/ \E p \in Calls :
               /\ calls[p].pc = "awaiting"
               /\ calls'[p].pc = "returned"
               /\ cache' # None
               /\ cache'[1].data = calls'[p].result[1]
          \/ cache' = None /\ calls' = calls
     /\ \A p \in Calls :
          (calls[p].pc # "thrown" /\ calls'[p].pc = "thrown") => cache' = cache]_vars

\* an invocation threw after three attempts while the slot holds an entry
C9_Witness ==
  \E p \in Calls :
    /\ calls[p].pc = "thrown"
    /\ calls[p].requests = 3
    /\ cache # None

\* C10: every refresh() invoked through the context value issues at least one
\* request.
C10_RefreshBypassesCache ==
  \A p \in Calls :
    (calls[p].origin = "refresh" /\ calls[p].pc # "idle") => calls[p].requests >= 1

\* C11: after invalidateCache the slot holds no entry, and the first
\* invocation started after it issues a request, whatever the invocations in
\* flight did in between.
C11_InvalidateForcesFetch ==
  [][/\ (invalidated' /\ ~invalidated) => cache' = None
     /\ \A p \in Calls :
          (StartStep(p) /\ invalidated) => calls'[p].requests >= 1]_vars

\* the snapshots a state holds: returned by an invocation, cached, stored
Snapshots ==
  {calls[p].result[1] : p \in {q \in Calls : calls[q].result # None}}
  \cup (IF cache = None THEN {} ELSE {cache[1].data})
  \cup (IF feed = None THEN {} ELSE {feed[1]})

\* C12: every snapshot returned, cached or stored has count equal to the
\* number of its events, and each event has finite latitude and longitude.
C12_SnapshotInvariant ==
  \A snap \in Snapshots :
    /\ snap.metadata.count = Len(snap.quakes)
    /\ \A i \in 1..Len(snap.quakes) :
         IsFinite(snap.quakes[i].latitude) /\ IsFinite(snap.quakes[i].longitude)

\* a body with a record that is dropped and a record that is kept went
\* through the invocation, the cache and the store
C12_Witness ==
  /\ Len(sample.features) = 2
  /\ feed # None /\ cache # None
  /\ Len(feed[1].quakes) = 1
  /\ cache[1].data = feed[1]
  /\ \E p \in Calls : calls[p].pc = "settled" /\ calls[p].result = feed

\* the features an answered invocation kept, in the order of its events
RawOf(snap) == [i \in 1..Len(snap.quakes) |-> snap.quakes[i].raw]

\* the source longitude and latitude of a record are finite numbers
SourceFinite(f) ==
  /\ Elem(CoordinateItems(f), 1).t = "number"
  /\ Elem(CoordinateItems(f), 2).t = "number"

\* C13: an answered invocation returns (never throws), and the records it
\* keeps are exactly those whose mapping does not throw and whose source
\* longitude and latitude are finite numbers, whatever their depth.
C13_DropRule ==
  \A p \in Calls :
    calls[p].resp # None =>
      /\ calls[p].pc \in {"returned", "settled"}
      /\ calls[p].result # None
      /\ RawOf(calls[p].result[1]) =
           SelectSeq(sample.features, LAMBDA f : ~MappingThrows(f) /\ SourceFinite(f))

\* the value a property has in the event: the source value, or d when absent
Taken(v, d, got) ==
  IF v.t = "undefined" THEN got = d
  ELSE v.t = d.t => got = v

\* C14: each event carries its record's coordinates and properties, with the
\* defaults for absent properties, and the events are in source order.
C14_FieldMapping ==
  \A p \in Calls :
    calls[p].resp # None /\ calls[p].result # None =>
      LET snap == calls[p].result[1]
          kept == {snap.quakes[i].raw : i \in 1..Len(snap.quakes)}
      IN /\ RawOf(snap) = SelectSeq(sample.features, LAMBDA f : f \in kept)
         /\ \A i \in 1..Len(snap.quakes) :
              LET q == snap.quakes[i]
                  f == q.raw
                  xs == CoordinateItems(f)
              IN /\ q.longitude = Elem(xs, 1)
                 /\ q.latitude = Elem(xs, 2)
                 /\ Elem(xs, 3).t = "number" => q.depth = Elem(xs, 3)
                 /\ ~IsNullish(f.id) => q.id.parts = <<f.id>>
                 /\ Taken(f.mag, Num(0), q.magnitude)
                 /\ Taken(f.place, Str("Unknown"), q.place)
                 /\ Taken(f.time, Num(0), q.time)
                 /\ Taken(f.url, Str(""), q.url)

\* a step in which the refresh() invocation in slot p runs its continuation
SettleStep(p) == calls[p].pc \in {"returned", "thrown"} /\ calls'[p].pc = "settled"

\* C15: when the fetch of a refresh() raises, error becomes the raised error's
\* message, code and isRetryable, loading becomes false, and the stored feed
\* and lastUpdated stay as they were.
C15_FailureKeepsStaleData ==
  [][\A p \in Calls :
       (SettleStep(p) /\ calls[p].pc = "thrown") =>
         /\ error' = Some([message |-> calls[p].lastError[1].message,
                           code |-> calls[p].lastError[1].code,
                           isRetryable |-> calls[p].lastError[1].isRetryable])
         /\ loading' = FALSE
         /\ feed' = feed
         /\ lastUpdated' = lastUpdated]_vars

\* a refresh failed after an earlier one had stored a feed
C15_Witness ==
  /\ feed # None /\ lastUpdated # None /\ ~loading
  /\ \E p \in Calls :
       /\ calls[p].pc = "settled" /\ calls[p].result = None
       /\ calls[p].now > lastUpdated[1]
       /\ error = Some(ErrorInfo(calls[p].lastError[1]))

\* no refresh() other than the one in slot p is between its start and its
\* continuation
OnlyRefreshInFlight(p) ==
  \A q \in Calls \ {p} : calls[q].pc \notin {"awaiting", "backoff", "returned", "thrown"}

\* C16: when the fetch of a refresh() returns a feed and no other refresh is
\* in flight, the store then holds that feed, lastUpdated is the completion
\* time, error is absent and loading is false.
C16_SuccessStoresFeed ==
  [][\A p \in Calls :
       (SettleStep(p) /\ calls[p].pc = "returned" /\ OnlyRefreshInFlight(p)) =>
         /\ feed' = calls[p].result
         /\ lastUpdated' = Some(clock)
         /\ error' = None
         /\ loading' = FALSE]_vars

\* a refresh that began before another one failed has succeeded after it
C16_Witness ==
  /\ error = None /\ ~loading
  /\ \E p, q \in Calls :
       /\ calls[p].pc = "settled" /\ calls[p].result # None /\ calls[p].resp # None
       /\ calls[q].pc = "settled" /\ calls[q].result = None
       /\ feed = calls[p].result
       /\ lastUpdated = Some(clock)

\* C17: feed and error are written by the continuations of refresh() only,
\* and the continuation of one invocation writes either its feed (leaving no
\* error) or its error (leaving the feed alone), never both.
C17_NoPartialState ==
  [][/\ \A p \in Calls :
          SettleStep(p) =>
            \/ calls[p].result # None /\ feed' = calls[p].result /\ error' = None
            \/ calls[p].result = None /\ feed' = feed
                 /\ error' = Some(ErrorInfo(calls[p].lastError[1]))
     /\ (\A p \in Calls : ~SettleStep(p)) => feed' = feed /\ error' \in {error, None}]_vars

\* an invocation that met an error, retried and succeeded has stored its feed
C17_Witness ==
  \E p \in Calls :
    /\ calls[p].pc = "settled"
    /\ calls[p].lastError # None /\ calls[p].result # None
    /\ feed = calls[p].result
    /\ error = None

\* C18: a step of clearError (no invocation moves, no time passes, the cache
\* and the filters are not touched) leaves error absent and feed,
\* lastUpdated and loading as they were; with no error present it changes
\* nothing, so a second clearError is a step that changes nothing.
C18_ClearErrorFrame ==
  [][(/\ calls' = calls /\ clock' = clock /\ cache' = cache
      /\ invalidated' = invalidated /\ filters' = filters /\ filtered' = filtered) =>
       /\ error' = None
       /\ UNCHANGED <<feed, lastUpdated, loading, cache, filters, started, mounted>>]_vars

\* the error of the last refresh was dismissed, the feed of the one before stays
C18_Witness ==
  /\ error = None /\ feed # None /\ lastUpdated # None
  /\ \E p \in Calls :
       /\ calls[p].pc = "settled" /\ calls[p].result = None
       /\ calls[p].now > lastUpdated[1]
  /\ \A p \in Calls : calls[p].pc \in {"idle", "settled"}

\* a step of setFilters under SpecView: no invocation moves and no time passes
SetFiltersStep == calls' = calls /\ clock' = clock

\* C19: setFilters(partial) gives each field named in partial its new value
\* and leaves each other field as it was; it starts no request and leaves
\* feed, error, loading, lastUpdated and the cache unchanged.  The filters
\* start as magMin 0, magMax 10, window 24h, cluster on, colour by magnitude.
C19_SetFiltersMerge ==
  /\ filters = [magMin |-> 0, magMax |-> 10, window |-> "24h", cluster |-> TRUE,
                colorMode |-> "magnitude"]
  /\ [][SetFiltersStep =>
          /\ \A k \in DOMAIN filters :
               filters'[k] = IF lastPartial'[k] # None THEN lastPartial'[k][1] ELSE filters[k]
          /\ UNCHANGED <<feed, error, loading, lastUpdated, cache, started>>
          /\ \A p \in Calls : calls'[p].requests = calls[p].requests]_vars

\* with a feed and an error in the store and magMin, cluster and colorMode
\* set earlier, the window alone was named
C19_Witness ==
  /\ lastPartial = [NoPartial EXCEPT !.window = Some("1h")]
  /\ filters = [magMin |-> 4, magMax |-> 10, window |-> "1h", cluster |-> FALSE,
                colorMode |-> "depth"]
  /\ feed # None /\ error # None

WindowHours(w) ==
  CASE w = "1h" -> 1 [] w = "6h" -> 6 [] w = "12h" -> 12 [] w = "24h" -> 24

\* the events of the feed within the magnitude bounds and the window, in
\* feed order; none when there is no feed
FilteredView(currentFeed, f, now) ==
  IF currentFeed = None THEN <<>>
  ELSE SelectSeq(currentFeed[1].quakes,
                 LAMBDA q : /\ f.magMin <= q.magnitude.n
                            /\ q.magnitude.n <= f.magMax
                            /\ q.time.n >= now - WindowHours(f.window) * 3600000)

\* C20: after every change of the feed or of the filters, filtered is the
\* subsequence of the feed's events with magMin <= magnitude <= magMax and
\* time >= now - window, now being the time of that change.
C20_FilteredView ==
  [][(feed' # feed \/ filters' # filters) =>
       filtered' = FilteredView(feed', filters', clock')]_vars

\* the five-event feed seen through the one-hour window after the event of
\* exactly one hour before the start has left it
C20_Witness ==
  /\ feed # None
  /\ Len(feed[1].quakes) = 5
  /\ filters.window = "1h" /\ filters.magMin = 0
  /\ Len(filtered) = 1

\* C21: the only invocation started without a user action is the one of the
\* mount effect, it is started once, and every other start is a refresh()
\* invoked through the context value; no change of feed, error, loading or
\* filters starts an invocation.
C21_OneAutomaticRefresh ==
  [][/\ \A p \in Calls :
          StartStep(p) =>
            \/ calls'[p].origin = "mount" /\ ~mounted /\ started = 0
            \/ calls'[p].origin = "refresh" /\ mounted
     /\ (feed' # feed \/ filters' # filters \/ (loading /\ ~loading')
         \/ (error' # error /\ error' # None)) => started' = started]_vars

\* the mount refresh has stored a feed, the filters were changed, time has
\* passed, and the mount invocation is still the only one
C21_Witness ==
  /\ mounted /\ started = 1
  /\ feed # None /\ ~loading
  /\ filters # InitialFilters
  /\ clock > 0

\* C22: requests are issued only by an invocation that a refresh() started
\* and that has not ended; once an invocation has thrown, its slot issues no
\* request until a new refresh() takes it.
C22_NoAutomaticRetry ==
  [][\A p \in Calls :
       /\ calls'[p].requests # calls[p].requests =>
            \/ StartStep(p) /\ calls'[p].origin \in {"mount", "refresh"} /\ loading'
            \/ calls[p].pc = "backoff" /\ calls'[p].requests = calls[p].requests + 1
       /\ (calls[p].pc \in {"thrown", "settled"} /\ ~StartStep(p)) =>
            /\ calls'[p].requests = calls[p].requests
            /\ calls'[p].pc \in {"thrown", "settled"}]_vars

\* a retryable error has reached the store after the engine used its budget,
\* and time has passed since without a request
C22_Witness ==
  \E p \in Calls :
    /\ calls[p].pc = "settled"
    /\ calls[p].requests = DEFAULT_RETRIES + 1
    /\ error # None /\ error[1].isRetryable
    /\ ~loading
    /\ clock >= DEFAULT_TTL

\* a step that recentres the map: the centre moves, or the zoom changes by
\* something else than one level of the zoom control
RecenterStep ==
  \/ map'.center # map.center
  \/ map'.zoom \notin {map.zoom - 1, map.zoom, map.zoom + 1}

\* C23: selecting a cluster sets the centre to the cluster's coordinate and
\* the zoom to the smaller of the current zoom plus two and 16, so the zoom
\* after a selection is at most 16 whatever the current zoom.
C23_ClusterRecenter ==
  [][/\ RecenterStep =>
          \E i \in 1..Len(layer) :
            /\ layer[i].kind = "cluster"
            /\ map'.center = <<layer[i].lat, layer[i].lng>>
            /\ map'.zoom = IF map.zoom + 2 <= 16 THEN map.zoom + 2 ELSE 16
     /\ \A i \in 1..Len(layer) :
          (/\ layer[i].kind = "cluster"
           /\ map'.center = <<layer[i].lat, layer[i].lng>>
           /\ map'.center # map.center) => map'.zoom <= 16]_vars

\* the map was recentred on a cluster and stands at the cap
C23_Witness ==
  /\ map.zoom = 16
  /\ \E i \in 1..Len(layer) :
       layer[i].kind = "cluster" /\ map.center = <<layer[i].lat, layer[i].lng>>

\* the six bands of the claim, from the least to the most severe
MagnitudeBands == <<"#43a047", "#7cb342", "#f4b400", "#f17c00", "#d62d20", "#a10f2b">>

BandOfMagnitude(m) ==
  IF m < 2 THEN 1 ELSE IF m < 3 THEN 2 ELSE IF m < 4 THEN 3
  ELSE IF m < 5 THEN 4 ELSE IF m < 6 THEN 5 ELSE 6

Severity(color) == CHOOSE b \in 1..6 : MagnitudeBands[b] = color

\* the leaves drawn with the events' own magnitude as colour
MagnitudeLeaves ==
  {i \in 1..Len(layer) : /\ layer[i].kind = "leaf" /\ layer[i].mode = "magnitude"
                         /\ IsFinite(layer[i].event.magnitude)}

\* C24: the six colours are distinct, each magnitude gets the colour of its
\* band (< 2, [2,3), [3,4), [4,5), [5,6), >= 6), and a larger magnitude never
\* gets a less severe colour.
C24_MagnitudeBands ==
  /\ \A a, b \in 1..6 : MagnitudeBands[a] = MagnitudeBands[b] => a = b
  /\ \A i \in MagnitudeLeaves :
       layer[i].color = MagnitudeBands[BandOfMagnitude(layer[i].event.magnitude.n)]
  /\ \A i, j \in MagnitudeLeaves :
       layer[i].event.magnitude.n <= layer[j].event.magnitude.n =>
         Severity(layer[i].color) <= Severity(layer[j].color)

\* all seven events are drawn by magnitude and the six colours are on the map
C24_Witness ==
  /\ Len(layer) = 7
  /\ MagnitudeLeaves = 1..7
  /\ {layer[i].color : i \in 1..7} = {MagnitudeBands[b] : b \in 1..6}

DepthBand(depth) ==
  IF depth.t # "number" THEN "#8884d8"
  ELSE IF depth.n < 10 THEN "#2ecc71" ELSE IF depth.n < 30 THEN "#27ae60"
  ELSE IF depth.n < 70 THEN "#f1c40f" ELSE IF depth.n < 150 THEN "#e67e22"
  ELSE IF depth.n < 300 THEN "#d35400" ELSE "#8e44ad"

\* C28: a leaf drawn in depth mode has the colour of the depth band of its
\* own event, a leaf drawn in magnitude mode that of its magnitude band, on
\* the clustered branch and on the points branch.
C28_LeafColour ==
  \A i \in 1..Len(layer) :
    layer[i].kind = "leaf" =>
      IF layer[i].mode = "depth"
      THEN layer[i].color = DepthBand(layer[i].event.depth)
      ELSE layer[i].color = MagnitudeBands[BandOfMagnitude(layer[i].event.magnitude.n)]

\* C25: when the continuation of an invocation runs after that of another
\* one, every field it writes takes its value: its feed, its completion time
\* and no error on success, its error on failure; that holds when the other
\* invocation had started after it.
C25_LastWriteWins ==
  [][\A p, q \in Calls :
       (p # q /\ SettleStep(p) /\ calls[q].pc = "settled") =>
         IF calls[p].pc = "returned"
         THEN feed' = calls[p].result /\ lastUpdated' = Some(clock) /\ error' = None
         ELSE error' = Some(ErrorInfo(calls[p].lastError[1]))]_vars

\* p started first and q during its flight, with another answer; both have
\* completed and the store shows the feed of p
C25_Witness ==
  \E p, q \in Calls :
    /\ calls[p].pc = "settled" /\ calls[p].resp # None /\ calls[p].result # None
    /\ calls[q].pc = "settled" /\ calls[q].resp # None /\ calls[q].result # None
    /\ calls[p].now < calls[q].now
    /\ calls[p].result # calls[q].result
    /\ feed = calls[p].result
    /\ error = None

\* C26: loading is set and the error cleared in the step that starts the
\* fetch; feed, lastUpdated and a present error are written only by the
\* continuation of an invocation whose fetch has ended; loading is cleared by
\* that continuation, on both paths, and by nothing else.
C26_OrderWithinRefresh ==
  [][/\ \A p \in Calls :
          /\ (StartStep(p) /\ calls'[p].origin \in {"mount", "refresh"}) =>
               loading' /\ error' = None
          /\ SettleStep(p) => ~loading'
     /\ (feed' # feed \/ lastUpdated' # lastUpdated \/ (error' # error /\ error' # None)
         \/ (loading /\ ~loading')) =>
          \E p \in Calls : SettleStep(p)
                           /\ calls[p].pc \in {"returned", "thrown"}]_vars

\* a refresh started while an error was shown: loading, no error, request pending
C26_Witness ==
  /\ loading /\ error = None /\ feed # None
  /\ \E p \in Calls :
       /\ calls[p].pc = "awaiting" /\ calls[p].origin = "refresh"
       /\ calls[p].now > lastUpdated[1]

\* C27: the ts of a cache entry is the time at which the entry is stored.
C27_CachedAtIsStorageTime ==
  [][(cache' # cache /\ cache' # None) => cache'[1].ts = clock']_vars

\* what holds of an invocation with retries >= 0 at every moment: at most
\* retries + 1 requests and retries waits, no wait after the final attempt,
\* and a thrown value that is a classified error other than the fallback
BudgetKept(c) ==
  c.retries >= 0 =>
    /\ c.requests <= c.retries + 1
    /\ Len(c.waits) <= c.retries
    /\ c.pc = "backoff" => c.attempt < c.retries /\ c.requests <= c.retries
    /\ c.pc = "thrown" => c.lastError # None /\ c.lastError[1].code # "MAX_RETRIES_EXCEEDED"

\* C29: an invocation with retries >= 0 keeps its budget of requests and
\* waits, never waits after its final attempt, and ends by returning a feed
\* or throwing a USGSError when every request is answered; the
\* MAX_RETRIES_EXCEEDED fallback is thrown only with retries < 0.
C29_Termination ==
  /\ [](\A p \in Calls :
          /\ BudgetKept(calls[p])
          /\ (calls[p].lastError # None
              /\ calls[p].lastError[1].code = "MAX_RETRIES_EXCEEDED") => calls[p].retries < 0)
  /\ \A p \in Calls :
       (calls[p].pc \in {"awaiting", "backoff"}) ~>
         \/ calls[p].pc = "returned" /\ calls[p].result # None
         \/ calls[p].pc = "thrown" /\ calls[p].lastError # None

\* an invocation has used its whole budget and thrown
C29_Witness ==
  \E p \in Calls :
    /\ calls[p].pc = "thrown"
    /\ calls[p].retries = MaxRetries
    /\ calls[p].requests = MaxRetries + 1
    /\ Len(calls[p].waits) = MaxRetries

\* the refresh() invocations between their start and their continuation
InFlight == {p \in Calls : calls[p].origin # "direct"
                           /\ calls[p].pc \in {"awaiting", "backoff", "returned", "thrown"}}

\* C30: with refresh() invoked by the mount effect, the Refresh buttons and
\* the Try Again button only, at most one refresh() is in flight, and
\* loading is true exactly while one is.
C30_SingleFlight ==
  /\ Cardinality(InFlight) <= 1
  /\ loading <=> InFlight # {}

\* Try Again was pressed: its refresh is the one in flight, waiting to retry
C30_Witness ==
  /\ loading
  /\ \E p \in Calls :
       /\ InFlight = {p}
       /\ calls[p].origin = "retry"
       /\ calls[p].pc = "backoff"

====
